---- MODULE Spec2Model ----
(***************************************************************************)
(* A model of src/yara_scanner.py: the YaraScanner class (one external     *)
(* engine call per rule file, run on a thread pool of max_workers threads, *)
(* verdicts collected with as_completed, then rendered) and main().        *)
(*                                                                         *)
(* Text is a sequence of one-character strings; " " stands for any         *)
(* whitespace character.  None is the one-element sequence <<"None">>.     *)
(***************************************************************************)
EXTENDS Integers, Sequences, FiniteSets, TLC

VARIABLES
    target_file,     \* "file" | "dir" | "missing" | "": what self.target_file names
    rules_dir,       \* "dir" | "missing": what self.rules_dir names
    walk,            \* the files os.walk(self.rules_dir) yields, in order
    engine,          \* rule path -> what subprocess.run does for that rule
    max_workers,     \* self.max_workers
    timeout,         \* self.timeout
    output_format,   \* self.output_format
    pc,              \* where run_scan is
    rule_files,      \* run_scan's local rule_files
    submitted,       \* number of executor.submit calls made
    fstate,          \* per future: "queued" | "running" | "finished" | "yielded"
    fresult,         \* per future: what scan_with_rule returned or raised
    invoked,         \* per future: number of times scan_with_rule was entered
    early,           \* futures found finished when as_completed was called
    waiter,          \* futures finished after that, in completion order
    results,         \* self.results
    dropped,         \* rules that took the "Error processing rule" branch
    summary,         \* the counts run_scan prints at line 135
    report,          \* what output_results produced last
    run,             \* number of the current program run
    prev_report,     \* the report produced before the current one
    now,             \* what datetime.now() returns
    renders,         \* number of output_results calls on this scanner
    completed        \* the futures in the order in which they finished

vars == <<target_file, rules_dir, walk, engine, max_workers, timeout,
          output_format, pc, rule_files, submitted, fstate, fresult, invoked,
          early, waiter, results, dropped, summary, report, run, prev_report,
                   now, renders, completed>>

inputs == <<target_file, rules_dir, walk, engine, max_workers, timeout,
            output_format>>

(***************************************************************************)
(* Bounds of the model.                                                    *)
(***************************************************************************)
MaxRules == 3          \* rule files in the directory, at most
MaxWorkers == 2        \* max_workers, at most
MaxDetailRules == 1    \* up to this many rules, every engine outcome is drawn
MaxRuns == 2           \* program runs on the same inputs (SpecRerun)
MaxRerunRules == 2     \* rule files in the directory, at most (SpecRerun)
MaxRenders == 2        \* output_results calls on one scanner (SpecRender)
MaxClock == 1          \* clock readings after the first (SpecRender)

DefaultTimeout == 20   \* --timeout default of main
ClassTimeout == 30     \* timeout default of YaraScanner.__init__
TimeoutSentinel == -1  \* return_code of a timeout or launch-failure verdict

None == <<"None">>

(***************************************************************************)
(* Text helpers: str.strip(), str(int), truthiness.                        *)
(***************************************************************************)
IsSpace(c) == c = " "

RECURSIVE lstrip(_)
lstrip(s) ==
    IF s = <<>> THEN <<>>
    ELSE IF IsSpace(Head(s)) THEN lstrip(Tail(s)) ELSE s

RECURSIVE rstrip(_)
rstrip(s) ==
    IF s = <<>> THEN <<>>
    ELSE IF IsSpace(s[Len(s)]) THEN rstrip(SubSeq(s, 1, Len(s) - 1)) ELSE s

strip(s) == rstrip(lstrip(s))

Digit(d) == <<"0", "1", "2", "3", "4", "5", "6", "7", "8", "9">>[d + 1]

RECURSIVE str(_)
str(n) == IF n < 10 THEN <<Digit(n)>> ELSE str(n \div 10) \o <<Digit(n % 10)>>

\* Python truthiness of an Optional[str]
Truthy(x) == x # None /\ x # <<>>

(***************************************************************************)
(* Rule files.  A file name is its stem followed by its extension, a path  *)
(* is the directory followed by the file name.                             *)
(***************************************************************************)
\* os.path.join(root, file)
join(root, file) == <<root>> \o file

\* os.path.basename(path): what follows the directory
basename(path) == Tail(path)

\* file.endswith(('.yar', '.yara'))
IsRuleFile(file) == file[Len(file)] \in {".yar", ".yara"}

\* the name of the i-th rule file of the directory
RuleFileName(i) == str(i) \o <<IF i % 2 = 1 THEN ".yar" ELSE ".yara">>

\* what os.walk yields for a directory of n rule files and one other file
Walk(n) ==
    <<[root |-> "rules", file |-> <<"readme", ".txt">>]>> \o
    [i \in 1..n |-> [root |-> "rules", file |-> RuleFileName(i)]]

\* lines 28-43
find_rule_files ==
    IF rules_dir # "dir" THEN <<>>
    ELSE LET kept == SelectSeq(walk, LAMBDA w : IsRuleFile(w.file))
         IN  [i \in 1..Len(kept) |-> join(kept[i].root, kept[i].file)]

(***************************************************************************)
(* What subprocess.run can do (lines 68-73): return a CompletedProcess or  *)
(* raise.                                                                  *)
(***************************************************************************)
Completed(out, err, rc) ==
    [kind |-> "completed", stdout |-> out, stderr |-> err, returncode |-> rc,
     exc |-> "", msg |-> <<>>]

\* raising exception class e, with str(e) = m
Raises(e, m) ==
    [kind |-> "raise", stdout |-> <<>>, stderr |-> <<>>, returncode |-> 0,
     exc |-> e, msg |-> m]

RawStdout == {<<>>, <<" ">>, <<"m", " ">>}
RawStderr == {<<>>, <<" ">>, <<"w", " ">>}
\* returncode: an exit code, or -N for a child killed by signal N
ExitCodes == {0, 1, -1}
LaunchErrors == {"FileNotFoundError", "PermissionError"}

TimedOut == Raises("TimeoutExpired", <<"timed out">>)

EngineOutcomes ==
    {Completed(o, e, rc) : o \in RawStdout, e \in RawStderr, rc \in ExitCodes}
    \cup {TimedOut} \cup {Raises(x, <<x>>) : x \in LaunchErrors}

\* the outcomes drawn for the longer rule lists
CoreOutcomes ==
    {Completed(<<"m", " ">>, <<>>, 0), Completed(<<>>, <<"w", " ">>, 1),
     TimedOut}

\* a handler that catches a missing executable only
IsFileNotFound(e) == e = "FileNotFoundError"

\* exception classes that "except Exception" catches
IsException(e) == e \in {"TimeoutExpired"} \cup LaunchErrors

(***************************************************************************)
(* scan_with_rule (lines 45-103).                                          *)
(***************************************************************************)
Verdict(rf, out, err, rc, m, e) ==
    [rule_file |-> rf, rule_name |-> basename(rf), stdout |-> out,
     stderr |-> err, return_code |-> rc, matches |-> m, error |-> e]

\* a normal completion that counts as a match only on exit code 0
NormalVerdictExitChecked(rule_file, proc) ==
    Verdict(rule_file, strip(proc.stdout), strip(proc.stderr), proc.returncode,
            strip(proc.stdout) # <<>> /\ proc.returncode = 0,
            IF strip(proc.stderr) # <<>> THEN strip(proc.stderr) ELSE None)

\* a normal completion that tests and stores stderr as the process wrote it
NormalVerdictRawError(rule_file, proc) ==
    Verdict(rule_file, strip(proc.stdout), strip(proc.stderr), proc.returncode,
            strip(proc.stdout) # <<>>,
            IF proc.stderr # <<>> THEN proc.stderr ELSE None)

\* lines 75-83
NormalVerdict(rule_file, proc) ==
    Verdict(rule_file, strip(proc.stdout), strip(proc.stderr), proc.returncode,
            strip(proc.stdout) # <<>>,
            IF strip(proc.stderr) # <<>> THEN strip(proc.stderr) ELSE None)

TimeoutMessage == <<"Timeout after ">> \o str(timeout) \o <<" seconds">>

\* a timeout verdict whose message names the class default, not self.timeout
TimeoutVerdictHardcoded(rule_file) ==
    Verdict(rule_file, <<>>,
            <<"Timeout after ">> \o str(ClassTimeout) \o <<" seconds">>,
            TimeoutSentinel, FALSE,
            <<"Timeout after ">> \o str(ClassTimeout) \o <<" seconds">>)

\* lines 85-93
TimeoutVerdict(rule_file) ==
    Verdict(rule_file, <<>>, TimeoutMessage, TimeoutSentinel, FALSE,
            TimeoutMessage)

\* a launch failure that leaves the error field unset
LaunchVerdictNoError(rule_file, proc) ==
    Verdict(rule_file, <<>>, proc.msg, TimeoutSentinel, FALSE, None)

\* a launch failure reported with exit status 1
LaunchVerdictExitOne(rule_file, proc) ==
    Verdict(rule_file, <<>>, proc.msg, 1, FALSE, proc.msg)

\* lines 95-103
LaunchVerdict(rule_file, proc) ==
    Verdict(rule_file, <<>>, proc.msg, TimeoutSentinel, FALSE, proc.msg)

NoVerdict == [none |-> TRUE]

Returned(v) == [raised |-> FALSE, exc |-> "", value |-> v]
Propagated(e) == [raised |-> TRUE, exc |-> e, value |-> NoVerdict]
NoResult == [raised |-> FALSE, exc |-> "", value |-> NoVerdict]

\* the try statement of lines 67-103, given what subprocess.run did
scan_with_rule(rule_file, proc) ==
    IF proc.kind = "completed" THEN Returned(NormalVerdict(rule_file, proc))
    ELSE IF proc.exc = "TimeoutExpired" THEN Returned(TimeoutVerdict(rule_file))
    ELSE IF IsException(proc.exc) THEN Returned(LaunchVerdict(rule_file, proc))
    ELSE Propagated(proc.exc)

(***************************************************************************)
(* output_results (lines 137-192).                                         *)
(***************************************************************************)
\* the results counted by exit code 0 instead of by the matched flag
MatchingByExitCode(rs) == SelectSeq(rs, LAMBDA r : r.return_code = 0)

\* [r for r in self.results if r["matches"]] (lines 134, 150, 169)
Matching(rs) == SelectSeq(rs, LAMBDA r : r.matches)

\* the key the other way round: matches last
SortKeyMatchesLast(x) == IF x.matches THEN 1 ELSE 0

\* key=lambda x: not x["matches"], with False < True
SortKey(x) == IF ~x.matches THEN 1 ELSE 0

\* an unstable insertion: x put before the elements of s with its own key
InsertBeforeEquals(s, x) ==
    LET p == Cardinality({i \in 1..Len(s) : SortKey(s[i]) < SortKey(x)})
    IN  SubSeq(s, 1, p) \o <<x>> \o SubSeq(s, p + 1, Len(s))

\* x put behind the elements of the sorted s whose key is not greater
InsertStable(s, x) ==
    LET p == Cardinality({i \in 1..Len(s) : SortKey(s[i]) <= SortKey(x)})
    IN  SubSeq(s, 1, p) \o <<x>> \o SubSeq(s, p + 1, Len(s))

\* sorted(): a stable sort by SortKey
RECURSIVE sorted(_)
sorted(s) ==
    IF s = <<>> THEN <<>>
    ELSE InsertStable(sorted(SubSeq(s, 1, Len(s) - 1)), s[Len(s)])

\* a loop body that writes an error line for every result that is no match
ResultLinesNoErrorTest(result) ==
    IF result.matches
    THEN << <<"[+] MATCH: ">> \o result.rule_name,
            result.stdout,
            <<"-------------------------------------">> >>
    ELSE << <<"[!] ERROR: ">> \o result.rule_name \o <<" - ">>
            \o result.error >>

\* lines 177-183: the lines one result adds to output_lines
ResultLines(result) ==
    IF result.matches
    THEN << <<"[+] MATCH: ">> \o result.rule_name,
            result.stdout,
            <<"-------------------------------------">> >>
    ELSE IF Truthy(result.error)
         THEN << <<"[!] ERROR: ">> \o result.rule_name \o <<" - ">>
                 \o result.error >>
         ELSE <<>>

RECURSIVE BodyLines(_)
BodyLines(rs) ==
    IF rs = <<>> THEN <<>> ELSE ResultLines(Head(rs)) \o BodyLines(Tail(rs))

NoReport == [format |-> "none"]

output_results ==
    IF output_format = "json"
    THEN [format |-> "json",
          scan_time |-> now,
          total_rules |-> Len(results),
          matching_rules |-> Len(Matching(results)),
          verdicts |-> results,
          lines |-> <<>>]
    ELSE [format |-> "text",
          scan_time |-> now,
          total_rules |-> Len(results),
          matching_rules |-> Len(Matching(results)),
          verdicts |-> sorted(results),
          lines |-> BodyLines(sorted(results))]

(***************************************************************************)
(* The program: main() builds one scanner, calls run_scan, then            *)
(* output_results (lines 207-217).                                         *)
(***************************************************************************)
Futures == 1..Len(rule_files)

Running == {i \in Futures : fstate[i] = "running"}

\* a pool with one thread per submitted rule
PoolCapPerRule == Len(rule_files)

\* ThreadPoolExecutor(max_workers=self.max_workers): the pool's thread count
PoolCap == max_workers

OutcomesFor(n) == IF n <= MaxDetailRules THEN EngineOutcomes ELSE CoreOutcomes

TimeoutsFor(n) ==
    IF n <= MaxDetailRules THEN {1, DefaultTimeout, ClassTimeout}
    ELSE {DefaultTimeout}

\* a scanner as __init__ leaves it (lines 20-26), run_scan not yet called
Fresh ==
    /\ pc = "accepting"
    /\ rule_files = <<>>
    /\ submitted = 0
    /\ fstate = <<>>
    /\ fresult = <<>>
    /\ invoked = <<>>
    /\ early = {}
    /\ waiter = <<>>
    /\ results = <<>>
    /\ dropped = {}
    /\ summary = [matching |-> 0, total |-> 0]
    /\ report = NoReport
    /\ renders = 0
    /\ completed = <<>>

Init ==
    /\ target_file \in {"file", "dir", "missing"}
    /\ rules_dir \in {"dir", "missing"}
    /\ \E n \in 0..MaxRules :
          /\ walk = Walk(n)
          /\ engine \in [1..n -> OutcomesFor(n)]
          /\ timeout \in TimeoutsFor(n)
    /\ max_workers \in 1..MaxWorkers
    /\ output_format \in {"text", "json"}
    /\ Fresh
    /\ run = 1
    /\ prev_report = NoReport
    /\ now = 0

\* run_scan without the check of the target file
RunScanBeginUnchecked ==
    /\ pc = "accepting"
    /\ LET found == find_rule_files
       IN  /\ rule_files' = found
           /\ IF found = <<>>
              THEN /\ pc' = "precondition_failed"
                   /\ UNCHANGED <<fstate, fresult, invoked>>
              ELSE /\ pc' = "submitting"
                   /\ fstate' = [i \in 1..Len(found) |-> "new"]
                   /\ fresult' = [i \in 1..Len(found) |-> NoResult]
                   /\ invoked' = [i \in 1..Len(found) |-> 0]
    /\ UNCHANGED <<inputs, submitted, early, waiter, results, dropped,
                   summary, report, run, prev_report,
                   now, renders, completed>>

\* lines 107-116: the precondition checks of run_scan
RunScanBegin ==
    /\ pc = "accepting"
    /\ IF target_file # "file"
       THEN /\ pc' = "precondition_failed"
            /\ UNCHANGED <<rule_files, fstate, fresult, invoked>>
       ELSE LET found == find_rule_files
            IN  /\ rule_files' = found
                /\ IF found = <<>>
                   THEN /\ pc' = "precondition_failed"
                        /\ UNCHANGED <<fstate, fresult, invoked>>
                   ELSE /\ pc' = "submitting"
                        /\ fstate' = [i \in 1..Len(found) |-> "new"]
                        /\ fresult' = [i \in 1..Len(found) |-> NoResult]
                        /\ invoked' = [i \in 1..Len(found) |-> 0]
    /\ UNCHANGED <<inputs, submitted, early, waiter, results, dropped,
                   summary, report, run, prev_report,
                   now, renders, completed>>

\* line 120: one executor.submit of the dict comprehension
Submit ==
    /\ pc = "submitting"
    /\ submitted' = submitted + 1
    /\ fstate' = [fstate EXCEPT ![submitted + 1] = "queued"]
    /\ pc' = IF submitted + 1 = Len(rule_files) THEN "submitted" ELSE pc
    /\ UNCHANGED <<inputs, rule_files, fresult, invoked, early, waiter,
                   results, dropped, summary, report, run, prev_report,
                   now, renders, completed>>

\* a worker that records a provisional timeout verdict when it starts and
\* replaces it when the process ends
StartProvisional(i) ==
    /\ fstate[i] = "queued"
    /\ \A j \in 1..(i - 1) : fstate[j] # "queued"
    /\ Cardinality(Running) < PoolCap
    /\ fstate' = [fstate EXCEPT ![i] = "running"]
    /\ invoked' = [invoked EXCEPT ![i] = @ + 1]
    /\ fresult' = [fresult EXCEPT ![i] = Returned(TimeoutVerdict(rule_files[i]))]
    /\ UNCHANGED <<inputs, pc, rule_files, submitted, early, waiter,
                   results, dropped, summary, report, run, prev_report,
                   now, renders, completed>>

\* a pool thread takes the oldest work item and enters scan_with_rule
\* (lines 45-66)
Start(i) ==
    /\ fstate[i] = "queued"
    /\ \A j \in 1..(i - 1) : fstate[j] # "queued"
    /\ Cardinality(Running) < PoolCap
    /\ fstate' = [fstate EXCEPT ![i] = "running"]
    /\ invoked' = [invoked EXCEPT ![i] = @ + 1]
    /\ UNCHANGED <<inputs, pc, rule_files, submitted, fresult, early, waiter,
                   results, dropped, summary, report, run, prev_report,
                   now, renders, completed>>

\* subprocess.run called without timeout=: an engine that never exits on its
\* own keeps its pool thread for ever
CompleteUntimed(i) ==
    /\ fstate[i] = "running"
    /\ engine[i].exc # "TimeoutExpired"
    /\ fstate' = [fstate EXCEPT ![i] = "finished"]
    /\ fresult' = [fresult EXCEPT ![i] = scan_with_rule(rule_files[i], engine[i])]
    /\ completed' = Append(completed, i)
    /\ waiter' = IF pc = "collecting" THEN Append(waiter, i) ELSE waiter
    /\ UNCHANGED <<inputs, pc, rule_files, submitted, invoked, early, results,
                   dropped, summary, report, run, prev_report,
                   now, renders>>

\* a worker that appends its verdict to self.results itself before it returns
CompleteAppending(i) ==
    /\ fstate[i] = "running"
    /\ fstate' = [fstate EXCEPT ![i] = "finished"]
    /\ fresult' = [fresult EXCEPT ![i] = scan_with_rule(rule_files[i], engine[i])]
    /\ results' = Append(results, scan_with_rule(rule_files[i], engine[i]).value)
    /\ completed' = Append(completed, i)
    /\ waiter' = IF pc = "collecting" THEN Append(waiter, i) ELSE waiter
    /\ UNCHANGED <<inputs, pc, rule_files, submitted, invoked, early,
                   dropped, summary, report, run, prev_report,
                   now, renders>>

\* subprocess.run ends and scan_with_rule returns or raises (lines 67-103);
\* the future is set and the as_completed waiter, once installed, notified
Complete(i) ==
    /\ fstate[i] = "running"
    /\ fstate' = [fstate EXCEPT ![i] = "finished"]
    /\ fresult' = [fresult EXCEPT ![i] = scan_with_rule(rule_files[i], engine[i])]
    /\ completed' = Append(completed, i)
    /\ waiter' = IF pc = "collecting" THEN Append(waiter, i) ELSE waiter
    /\ UNCHANGED <<inputs, pc, rule_files, submitted, invoked, early, results,
                   dropped, summary, report, run, prev_report,
                   now, renders>>

\* a collection loop that waits for the pending futures only and so never
\* yields the ones that finished before it began
AsCompletedPendingOnly ==
    /\ pc = "submitted"
    /\ pc' = "collecting"
    /\ early' = {}
    /\ fstate' = [i \in Futures |->
                    IF fstate[i] = "finished" THEN "yielded" ELSE fstate[i]]
    /\ UNCHANGED <<inputs, rule_files, submitted, fresult, invoked,
                   waiter, results, dropped, summary, report, run, prev_report,
                   now, renders, completed>>

\* line 121: as_completed is called; the futures already finished are
\* yielded first, in the iteration order of a set
AsCompleted ==
    /\ pc = "submitted"
    /\ pc' = "collecting"
    /\ early' = {i \in Futures : fstate[i] = "finished"}
    /\ UNCHANGED <<inputs, rule_files, submitted, fstate, fresult, invoked,
                   waiter, results, dropped, summary, report, run, prev_report,
                   now, renders, completed>>

\* a loop body that submits a rule again when its verdict carries an error
HandleRetrying(i) ==
    IF ~fresult[i].raised /\ Truthy(fresult[i].value.error) /\ invoked[i] < 2
    THEN /\ fstate' = [fstate EXCEPT ![i] = "queued"]
         /\ UNCHANGED <<results, dropped>>
    ELSE /\ fstate' = [fstate EXCEPT ![i] = "yielded"]
         /\ results' = Append(results, fresult[i].value)
         /\ UNCHANGED dropped

\* a loop body that cancels the rules still queued once a verdict reports a
\* timeout or a launch failure
HandleCancelling(i) ==
    /\ results' = Append(results, fresult[i].value)
    /\ UNCHANGED dropped
    /\ fstate' = [j \in Futures |->
                    IF j = i THEN "yielded"
                    ELSE IF fstate[j] = "queued"
                            /\ fresult[i].value.return_code = TimeoutSentinel
                         THEN "cancelled"
                         ELSE fstate[j]]

\* a loop body that stores the verdict at the slot of the last one while
\* another finished future is waiting to be handled
HandleOverwriting(i) ==
    /\ fstate' = [fstate EXCEPT ![i] = "yielded"]
    /\ UNCHANGED dropped
    /\ IF results # <<>> /\ \E j \in Futures \ {i} : fstate[j] = "finished"
       THEN results' = [results EXCEPT ![Len(results)] = fresult[i].value]
       ELSE results' = Append(results, fresult[i].value)

\* lines 122-127: the loop body for the future as_completed yields
Handle(i) ==
    /\ fstate' = [fstate EXCEPT ![i] = "yielded"]
    /\ IF fresult[i].raised
       THEN /\ dropped' = dropped \cup {i}
            /\ UNCHANGED results
       ELSE /\ results' = Append(results, fresult[i].value)
            /\ UNCHANGED dropped

\* the futures of the first group as_completed has not yielded yet
EarlyPending == {i \in early : fstate[i] = "finished"}

\* a loop that takes the future that finished last rather than first
CollectNewestFirst ==
    /\ pc = "collecting"
    /\ IF EarlyPending # {}
       THEN \E i \in EarlyPending :
               /\ Handle(i)
               /\ UNCHANGED waiter
       ELSE /\ waiter # <<>>
            /\ Handle(waiter[Len(waiter)])
            /\ waiter' = SubSeq(waiter, 1, Len(waiter) - 1)
    /\ UNCHANGED early
    /\ UNCHANGED <<inputs, pc, rule_files, submitted, fresult, invoked,
                   summary, report, run, prev_report,
                   now, renders, completed>>

\* lines 121-127: one turn of the loop over as_completed
Collect ==
    /\ pc = "collecting"
    /\ IF EarlyPending # {}
       THEN \E i \in EarlyPending :
               /\ Handle(i)
               /\ UNCHANGED waiter
       ELSE /\ waiter # <<>>
            /\ Handle(Head(waiter))
            /\ waiter' = Tail(waiter)
    /\ UNCHANGED early
    /\ UNCHANGED <<inputs, pc, rule_files, submitted, fresult, invoked,
                   summary, report, run, prev_report,
                   now, renders, completed>>

\* lines 128-135: every future was yielded, the pool shuts down, the counts
\* are printed and run_scan returns
RunScanEnd ==
    /\ pc = "collecting"
    /\ \A i \in Futures : fstate[i] = "yielded"
    /\ pc' = "complete"
    /\ summary' = [matching |-> Len(Matching(results)),
                   total |-> Len(rule_files)]
    /\ UNCHANGED <<inputs, rule_files, submitted, fstate, fresult, invoked,
                   early, waiter, results, dropped, report, run, prev_report,
                   now, renders, completed>>

\* a rendering that sorts self.results in place (list.sort)
ResultsSortedInPlace == sorted(results)

\* a rendering that empties self.results once it has written them
ResultsCleared == <<>>

\* self.results after output_results: never assigned, sorted() copies
ResultsAfterRender == results

Returned_run_scan == pc \in {"complete", "precondition_failed"}

\* line 217: main calls output_results once run_scan has returned
OutputResults ==
    /\ Returned_run_scan
    /\ report = NoReport
    /\ report' = output_results
    /\ renders' = renders + 1
    /\ results' = ResultsAfterRender
    /\ UNCHANGED <<inputs, pc, rule_files, submitted, fstate, fresult, invoked,
                   early, waiter, dropped, summary, run, prev_report,
                   now, completed>>

\* main has returned (line 217 done); the script ends
MainReturned == renders >= 1

\* lines 216-221: main returns normally whatever run_scan printed, and
\* nothing calls sys.exit, so the process ends with status 0
ExitStatus == 0

Next ==
    \/ RunScanBegin
    \/ Submit
    \/ \E i \in Futures : Start(i)
    \/ \E i \in Futures : Complete(i)
    \/ AsCompleted
    \/ Collect
    \/ RunScanEnd
    \/ OutputResults

Spec == Init /\ [][Next]_vars

MaxFairRules == 2

\* the batches whose preconditions pass, an engine that answers, fails to
\* launch or never exits for each rule
InitFair ==
    /\ target_file = "file"
    /\ rules_dir = "dir"
    /\ \E n \in 1..MaxFairRules :
          /\ walk = Walk(n)
          /\ engine \in [1..n -> CoreOutcomes
                                  \cup {Raises("FileNotFoundError",
                                                <<"FileNotFoundError">>)}]
    /\ timeout = DefaultTimeout
    /\ max_workers \in 1..MaxWorkers
    /\ output_format \in {"text", "json"}
    /\ Fresh
    /\ run = 1
    /\ prev_report = NoReport
    /\ now = 0

\* The main thread and the pool threads are operating-system threads and
\* each keeps running; subprocess.run(timeout=self.timeout) returns or raises
\* after at most the timeout (line 67-73), so a step that can be taken is
\* taken.
FairSpec == InitFair /\ [][Next]_vars /\ WF_vars(Next)

(***************************************************************************)
(* The program run again on the same inputs (same target, same rules, an   *)
(* engine that answers the same): a new process, so a new scanner.  The    *)
(* report of the run before is kept for comparison.                        *)
(***************************************************************************)
Rerun ==
    /\ report # NoReport
    /\ run < MaxRuns
    /\ prev_report' = report
    /\ run' = run + 1
    /\ pc' = "accepting"
    /\ rule_files' = <<>>
    /\ submitted' = 0
    /\ fstate' = <<>>
    /\ fresult' = <<>>
    /\ invoked' = <<>>
    /\ early' = {}
    /\ waiter' = <<>>
    /\ results' = <<>>
    /\ dropped' = {}
    /\ summary' = [matching |-> 0, total |-> 0]
    /\ report' = NoReport
    /\ renders' = 0
    /\ completed' = <<>>
    /\ UNCHANGED <<inputs, now>>

NextRerun ==
    \/ RunScanBegin
    \/ Submit
    \/ \E i \in Futures : Start(i)
    \/ \E i \in Futures : Complete(i)
    \/ AsCompleted
    \/ Collect
    \/ RunScanEnd
    \/ OutputResults
    \/ Rerun

\* the inputs of a batch whose preconditions pass
InitRerun ==
    /\ target_file = "file"
    /\ rules_dir = "dir"
    /\ \E n \in 1..MaxRerunRules :
          /\ walk = Walk(n)
          /\ engine \in [1..n -> CoreOutcomes]
    /\ timeout = DefaultTimeout
    /\ max_workers \in 1..MaxWorkers
    /\ output_format \in {"text", "json"}
    /\ Fresh
    /\ run = 1
    /\ prev_report = NoReport
    /\ now = 0

SpecRerun == InitRerun /\ [][NextRerun]_vars

(***************************************************************************)
(* A caller that renders the same scanner again, the clock going on        *)
(* between the calls.                                                      *)
(***************************************************************************)
OutputResultsAgain ==
    /\ report # NoReport
    /\ renders < MaxRenders
    /\ prev_report' = report
    /\ report' = output_results
    /\ renders' = renders + 1
    /\ results' = ResultsAfterRender
    /\ UNCHANGED <<inputs, pc, rule_files, submitted, fstate, fresult, invoked,
                   early, waiter, dropped, summary, run, now, completed>>

Tick ==
    /\ Returned_run_scan
    /\ now < MaxClock
    /\ now' = now + 1
    /\ UNCHANGED <<inputs, pc, rule_files, submitted, fstate, fresult, invoked,
                   early, waiter, results, dropped, summary, report, run,
                   prev_report, renders, completed>>

NextRender ==
    \/ RunScanBegin
    \/ Submit
    \/ \E i \in Futures : Start(i)
    \/ \E i \in Futures : Complete(i)
    \/ AsCompleted
    \/ Collect
    \/ RunScanEnd
    \/ OutputResults
    \/ OutputResultsAgain
    \/ Tick

SpecRender == Init /\ [][NextRender]_vars

(***************************************************************************)
(* A caller that keeps the scanner and calls run_scan on it again, each    *)
(* batch rendered before the next one begins.  run counts the calls.       *)
(***************************************************************************)
MaxBatches == 2

\* a run_scan that begins with self.results = []
ResultsResetAtBatchStart == <<>>

\* self.results when run_scan begins: assigned in __init__ only (line 26),
\* lines 105-116 leave it alone
ResultsAtBatchStart == results

\* lines 105-116 on a scanner whose run_scan has returned before
RunScanAgain ==
    /\ pc = "complete"
    /\ report # NoReport
    /\ run < MaxBatches
    /\ run' = run + 1
    /\ prev_report' = report
    /\ report' = NoReport
    /\ results' = ResultsAtBatchStart
    /\ submitted' = 0
    /\ early' = {}
    /\ waiter' = <<>>
    /\ completed' = <<>>
    /\ IF target_file # "file"
       THEN /\ pc' = "precondition_failed"
            /\ UNCHANGED <<rule_files, fstate, fresult, invoked>>
       ELSE LET found == find_rule_files
            IN  /\ rule_files' = found
                /\ IF found = <<>>
                   THEN /\ pc' = "precondition_failed"
                        /\ UNCHANGED <<fstate, fresult, invoked>>
                   ELSE /\ pc' = "submitting"
                        /\ fstate' = [i \in 1..Len(found) |-> "new"]
                        /\ fresult' = [i \in 1..Len(found) |-> NoResult]
                        /\ invoked' = [i \in 1..Len(found) |-> 0]
    /\ UNCHANGED <<inputs, dropped, summary, now, renders>>

NextReuse ==
    \/ RunScanBegin
    \/ Submit
    \/ \E i \in Futures : Start(i)
    \/ \E i \in Futures : Complete(i)
    \/ AsCompleted
    \/ Collect
    \/ RunScanEnd
    \/ OutputResults
    \/ RunScanAgain

SpecReuse == InitRerun /\ [][NextReuse]_vars

(***************************************************************************)
(* Properties.                                                             *)
(***************************************************************************)
Failed(v) == v.return_code = TimeoutSentinel

\* the positions of results that hold a verdict of rule_files[i]
VerdictsOf(i) == {k \in 1..Len(results) : results[k].rule_file = rule_files[i]}

\* C1: the number of scan_with_rule invocations that have started and not
\* yet returned never exceeds max_workers.
C1_ConcurrencyCap == Cardinality(Running) <= max_workers

\* C1 witness: a rule list longer than max_workers, the pool full and a
\* rule waiting for a free thread.
C1_Witness ==
    /\ Len(rule_files) > max_workers
    /\ Cardinality(Running) = max_workers
    /\ \E i \in Futures : fstate[i] = "queued"

\* C2: no rule is invoked more than once and, when run_scan has returned
\* from a batch whose preconditions passed, every rule was invoked exactly
\* once and results holds exactly one verdict for each rule and nothing else.
C2_ExactlyOnce ==
    /\ \A i \in Futures : invoked[i] <= 1
    /\ pc = "complete" =>
          /\ \A i \in Futures : invoked[i] = 1
          /\ \A i \in Futures : Cardinality(VerdictsOf(i)) = 1
          /\ Len(results) = Len(rule_files)

\* C2 witness: a batch of several rules has returned, one of its
\* invocations having timed out.
C2_Witness ==
    /\ pc = "complete"
    /\ Len(rule_files) >= 2
    /\ \E k \in 1..Len(results) : Failed(results[k])

\* the futures whose invocation has returned a verdict
Resolved == {i \in Futures : fstate[i] \in {"finished", "yielded"}
                               /\ ~fresult[i].raised}

VerdictOf(i) == fresult[i].value

\* s has a character that is not whitespace
HasText(s) == \E k \in 1..Len(s) : s[k] # " "

\* C3 as stated: in every verdict, matched implies the error field is unset
\* and a set error field implies matched = false.
C3_Original ==
    \A i \in Resolved :
        /\ VerdictOf(i).matches => VerdictOf(i).error = None
        /\ VerdictOf(i).error # None => ~VerdictOf(i).matches

\* C3 amended: a timeout or launch-failure verdict has matched = false and
\* the error field set; matched is true together with a set error field only
\* after a normal completion that wrote text to stdout and to stderr.
C3_Amended ==
    \A i \in Resolved :
        /\ engine[i].kind = "raise" =>
              ~VerdictOf(i).matches /\ VerdictOf(i).error # None
        /\ (VerdictOf(i).matches /\ VerdictOf(i).error # None) =>
              /\ engine[i].kind = "completed"
              /\ HasText(engine[i].stdout)
              /\ HasText(engine[i].stderr)

\* C3 witness: a collected verdict that is matched and carries an error.
C3_Witness ==
    \E k \in 1..Len(results) :
        results[k].matches /\ results[k].error # None

\* C4 as stated: matched is true iff the trimmed stdout is non-empty and the
\* exit code is 0; a non-zero exit yields matched = false with an error.
C4_Original ==
    \A i \in Resolved :
        /\ VerdictOf(i).matches <=>
              (VerdictOf(i).stdout # <<>> /\ VerdictOf(i).return_code = 0)
        /\ VerdictOf(i).return_code # 0 =>
              ~VerdictOf(i).matches /\ VerdictOf(i).error # None

\* C4 amended: matched is true iff the process completed and wrote text to
\* stdout, whatever its exit code; after a completion, an error is recorded
\* iff the process wrote text to stderr, whatever its exit code.
C4_Amended ==
    \A i \in Resolved :
        /\ VerdictOf(i).matches <=>
              (engine[i].kind = "completed" /\ HasText(engine[i].stdout))
        /\ engine[i].kind = "completed" =>
              (VerdictOf(i).error # None <=> HasText(engine[i].stderr))

\* C4 witness: a completion with a non-zero exit code and text on stdout.
C4_Witness ==
    \E i \in Resolved :
        /\ engine[i].kind = "completed"
        /\ engine[i].returncode # 0
        /\ HasText(engine[i].stdout)

\* C5: scan_with_rule raises for no outcome of the external process, so no
\* rule takes the "Error processing rule" branch and loses its verdict.
C5_NeverRaises ==
    /\ \A i \in Futures : ~fresult[i].raised
    /\ dropped = {}
    /\ \A i \in Futures : fstate[i] = "yielded" => VerdictsOf(i) # {}

\* C5 witness: the engine could not be launched for want of permission and
\* the dispatcher collected the verdict of that rule.
C5_Witness ==
    \E i \in Futures :
        /\ engine[i].exc = "PermissionError"
        /\ fstate[i] = "yielded"
        /\ VerdictsOf(i) # {}

\* the verdict v is the one the engine outcome proc determines
OwnOutcome(v, proc) ==
    /\ proc.kind = "raise" => Failed(v)
    /\ v.matches <=> (proc.kind = "completed" /\ HasText(proc.stdout))
    /\ proc.kind = "completed" => v.return_code = proc.returncode
    /\ proc.exc = "TimeoutExpired" => v.error = TimeoutMessage

Dispatching == pc \in {"submitting", "submitted", "collecting"}

\* a step that submits, starts or finishes an invocation
Advance ==
    \/ Submit
    \/ \E i \in Futures : Start(i)
    \/ \E i \in Futures : Complete(i)

\* C6: whatever verdicts have been produced, no future is ever cancelled, a
\* rule not yet resolved can always go on (be submitted, started or
\* finished), and when run_scan returns every rule was started and has the
\* verdict its own engine outcome determines.
C6_NoSiblingCancelled ==
    /\ \A i \in Futures :
          fstate[i] \in {"new", "queued", "running", "finished", "yielded"}
    /\ (Dispatching /\ \E i \in Futures : fstate[i] \in {"new", "queued", "running"})
          => ENABLED Advance
    /\ pc = "complete" =>
          \A i \in Futures :
              /\ invoked[i] = 1
              /\ VerdictsOf(i) # {}
              /\ \A k \in VerdictsOf(i) : OwnOutcome(results[k], engine[i])

\* C6 witness: the first verdict collected was a timeout and the batch went
\* on to collect a match of a sibling rule.
C6_Witness ==
    /\ pc = "complete"
    /\ Len(results) >= 2
    /\ Failed(results[1])
    /\ results[Len(results)].matches

\* the discovery position of the rule of verdict v
DiscoveryIndex(v) == CHOOSE i \in 1..Len(rule_files) : rule_files[i] = v.rule_file

\* the position at which verdict v was collected
CollectionIndex(v) == CHOOSE k \in 1..Len(results) : results[k] = v

\* seq lists the matched verdicts first and, inside each group, follows Idx
StablePartitionBy(seq, Idx(_)) ==
    \A a, b \in 1..Len(seq) :
        a < b =>
            /\ seq[b].matches => seq[a].matches
            /\ (seq[a].matches <=> seq[b].matches) => Idx(seq[a]) < Idx(seq[b])

\* seq holds the elements of results, each once
PermutationOfResults(seq) ==
    /\ Len(seq) = Len(results)
    /\ \A k \in 1..Len(results) :
          Cardinality({a \in 1..Len(seq) : seq[a] = results[k]}) = 1

\* C7 as stated: in both renderings the verdicts of the report are a stable
\* partition by discovery order, matched verdicts first.
C7_Original ==
    report # NoReport => StablePartitionBy(report.verdicts, DiscoveryIndex)

\* C7 amended: the text rendering orders the verdicts as a stable partition
\* of the collection order (matched first, each group in the order in which
\* the verdicts were collected); the structured rendering lists them in
\* collection order, unpartitioned.
C7_Amended ==
    report # NoReport =>
        IF report.format = "text"
        THEN /\ PermutationOfResults(report.verdicts)
             /\ StablePartitionBy(report.verdicts, CollectionIndex)
        ELSE report.verdicts = results

\* C7 witness: a text report of a batch in which a non-match was collected
\* before a match and two matches were collected against discovery order.
C7_Witness ==
    /\ report # NoReport
    /\ report.format = "text"
    /\ \E a, b \in 1..Len(results) :
          a < b /\ ~results[a].matches /\ results[b].matches
    /\ \E a, b \in 1..Len(results) :
          /\ a < b /\ results[a].matches /\ results[b].matches
          /\ DiscoveryIndex(results[a]) > DiscoveryIndex(results[b])

VerdictSet(r) == {r.verdicts[k] : k \in 1..Len(r.verdicts)}

BothRendered == prev_report # NoReport /\ report # NoReport

\* C8 as stated: two runs on the same rule list, target and engine outcomes
\* produce the same report: the same ordering, verdicts and counters.
C8_Original == BothRendered => report = prev_report

\* C8 amended: two such runs produce the same set of verdicts and the same
\* summary counters; the ordering of the report may differ.
C8_Amended ==
    BothRendered =>
        /\ VerdictSet(report) = VerdictSet(prev_report)
        /\ report.total_rules = prev_report.total_rules
        /\ report.matching_rules = prev_report.matching_rules

\* C8 witness: two runs on the same inputs whose reports list the same
\* verdicts in different orders.
C8_Witness ==
    /\ BothRendered
    /\ report.format = "text"
    /\ report.verdicts # prev_report.verdicts

\* C9: in every report, the matched count is the number of collected
\* verdicts whose matched flag is true, and it is at most the total count.
C9_Counts ==
    report # NoReport =>
        /\ report.matching_rules =
              Cardinality({k \in 1..Len(results) : results[k].matches})
        /\ report.total_rules = Len(results)
        /\ report.matching_rules <= report.total_rules

\* C9 witness: a report of a batch with at least one match and at least one
\* non-match.
C9_Witness ==
    /\ report # NoReport
    /\ 0 < report.matching_rules
    /\ report.matching_rules < report.total_rules

\* the preconditions of run_scan: a regular target file, a rule found
TargetOk == target_file = "file"
RulesOk == rules_dir = "dir" /\ \E k \in 1..Len(walk) : IsRuleFile(walk[k].file)

\* C10: once run_scan has looked at a target that is missing or no regular
\* file, or at an empty rule list, it has aborted: nothing was submitted, no
\* scan_with_rule invocation was made and results is as it was.
C10_PreconditionAbort ==
    (pc # "accepting" /\ (~TargetOk \/ ~RulesOk)) =>
        /\ pc = "precondition_failed"
        /\ submitted = 0
        /\ \A i \in DOMAIN invoked : invoked[i] = 0
        /\ \A i \in DOMAIN fstate : fstate[i] = "new"
        /\ results = <<>>

\* C10 witness: run_scan has aborted on a target that is not a regular file
\* although the directory holds rules.
C10_Witness ==
    /\ pc = "precondition_failed"
    /\ ~TargetOk
    /\ RulesOk

\* C11 as stated: a batch whose precondition is violated renders no report
\* and ends as a failure of the tool; a batch whose preconditions pass ends
\* as a success.
C11_Original ==
    /\ pc = "precondition_failed" => report = NoReport
    /\ (MainReturned /\ pc = "precondition_failed") => ExitStatus # 0
    /\ (MainReturned /\ pc = "complete") => ExitStatus = 0

\* the number a sequence of decimal digits writes
RECURSIVE DigitsValue(_)
DigitsValue(ds) ==
    IF ds = <<>> THEN 0
    ELSE 10 * DigitsValue(SubSeq(ds, 1, Len(ds) - 1))
         + (CHOOSE d \in 0..9 : Digit(d) = ds[Len(ds)])

\* the message m is "Timeout after <n> seconds"
NamesTimeout(m, n) ==
    /\ Len(m) >= 3
    /\ m[1] = "Timeout after "
    /\ m[Len(m)] = " seconds"
    /\ DigitsValue(SubSeq(m, 2, Len(m) - 1)) = n

TimedOutFutures == {i \in Resolved : engine[i].exc = "TimeoutExpired"}

\* C12 as stated: a timeout verdict has matched = false, the exit status -1,
\* an error message naming the configured timeout, and empty stdout and
\* stderr.
C12_Original ==
    \A i \in TimedOutFutures :
        /\ ~VerdictOf(i).matches
        /\ VerdictOf(i).return_code = TimeoutSentinel
        /\ NamesTimeout(VerdictOf(i).error, timeout)
        /\ VerdictOf(i).stdout = <<>>
        /\ VerdictOf(i).stderr = <<>>

\* C12 amended: a timeout verdict has matched = false, the exit status -1,
\* an error message naming the configured timeout, an empty stdout, and a
\* stderr that holds the same message as the error field.
C12_Amended ==
    \A i \in TimedOutFutures :
        /\ ~VerdictOf(i).matches
        /\ VerdictOf(i).return_code = TimeoutSentinel
        /\ NamesTimeout(VerdictOf(i).error, timeout)
        /\ VerdictOf(i).stdout = <<>>
        /\ VerdictOf(i).stderr = VerdictOf(i).error

\* C12 witness: the verdict of an invocation that timed out under a timeout
\* of two digits was collected.
C12_Witness ==
    /\ timeout >= 10
    /\ \E k \in 1..Len(results) :
          /\ Failed(results[k])
          /\ NamesTimeout(results[k].error, timeout)

LaunchFailures == {i \in Resolved : engine[i].exc \in LaunchErrors}

\* C13: a verdict of a launch failure has matched = false, the exit status
\* a timeout verdict has, and the description of the failure as its error.
C13_LaunchFailure ==
    \A i \in LaunchFailures :
        /\ ~VerdictOf(i).matches
        /\ VerdictOf(i).return_code = TimeoutVerdict(rule_files[i]).return_code
        /\ VerdictOf(i).error = engine[i].msg
        /\ VerdictOf(i).error # None

\* C13 witness: the engine executable was missing and the verdict of the
\* rule was collected.
C13_Witness ==
    \E i \in LaunchFailures :
        /\ engine[i].exc = "FileNotFoundError"
        /\ fstate[i] = "yielded"
        /\ results # <<>>

RenderedTwice == renders >= 2

\* the report without its time stamp
Untimed(r) == [r EXCEPT !.scan_time = 0]

\* C14 as stated: two renderings of the same collected verdicts are
\* identical, also when the clock has advanced between the calls.
C14_Original == (RenderedTwice /\ pc = "complete") => report = prev_report

\* C14 amended: two renderings of the same collected verdicts are identical
\* but for the scan time, which is the clock reading at each call; they are
\* identical throughout when the clock has not advanced.
C14_Amended ==
    RenderedTwice =>
        /\ Untimed(report) = Untimed(prev_report)
        /\ prev_report.scan_time <= report.scan_time
        /\ report.scan_time <= now

\* C14 witness: the scanner was rendered twice, the clock having advanced
\* between the calls.
C14_Witness ==
    /\ RenderedTwice
    /\ report.total_rules >= 2
    /\ report.scan_time # prev_report.scan_time

\* C15: a step that renders, in either mode, leaves results as it was, in
\* contents and in order.
C15_RenderKeepsResults == [][renders' # renders => results' = results]_vars

\* C15 witness: a second text rendering of results that are not in the
\* order the rendering lists them in.
C15_Witness ==
    /\ RenderedTwice
    /\ report.format = "text"
    /\ report.verdicts # results

\* line l starts with the tag and the name of the rule of verdict v
LineOf(l, tag, v) ==
    /\ Len(l) > Len(v.rule_name)
    /\ l[1] = tag
    /\ SubSeq(l, 2, 1 + Len(v.rule_name)) = v.rule_name

MatchLinesOf(v) ==
    {k \in 1..Len(report.lines) : LineOf(report.lines[k], "[+] MATCH: ", v)}

ErrorLinesOf(v) ==
    {k \in 1..Len(report.lines) : LineOf(report.lines[k], "[!] ERROR: ", v)}

HasError(v) == v.error # None /\ v.error # <<>>

Count(P(_)) == Cardinality({k \in 1..Len(results) : P(results[k])})

\* C16: after the header, the text rendering holds one block per matched
\* verdict (its title, its stdout, a rule), one line per non-matched verdict
\* with an error, nothing for the other verdicts, and nothing else.
C16_TextBody ==
    (report # NoReport /\ report.format = "text") =>
        /\ \A k \in 1..Len(results) :
              LET v == results[k]
              IN  /\ Cardinality(MatchLinesOf(v)) = IF v.matches THEN 1 ELSE 0
                  /\ Cardinality(ErrorLinesOf(v)) =
                        IF ~v.matches /\ HasError(v) THEN 1 ELSE 0
                  /\ MatchLinesOf(v) = {} \/ ErrorLinesOf(v) = {}
                  /\ \A m \in MatchLinesOf(v) :
                        /\ m + 2 <= Len(report.lines)
                        /\ report.lines[m + 1] = v.stdout
                  /\ \A e \in ErrorLinesOf(v) :
                        report.lines[e] = <<"[!] ERROR: ">> \o v.rule_name
                                          \o <<" - ">> \o v.error
        /\ Len(report.lines) =
              3 * Count(LAMBDA v : v.matches)
              + Count(LAMBDA v : ~v.matches /\ HasError(v))

\* C16 witness: a text report with a block of a match and a line of an
\* error.
C16_Witness ==
    /\ report # NoReport
    /\ report.format = "text"
    /\ \E a, b \in 1..Len(results) :
          /\ MatchLinesOf(results[a]) # {}
          /\ ErrorLinesOf(results[b]) # {}

\* the rules whose engine process never exits on its own
NeverExits == {i \in Futures : engine[i].exc = "TimeoutExpired"}

AllCollected ==
    /\ pc = "complete"
    /\ Len(results) = Len(rule_files)
    /\ \A i \in Futures : fstate[i] = "yielded" /\ VerdictsOf(i) # {}
    /\ \A i \in NeverExits :
          \A k \in VerdictsOf(i) :
              /\ ~results[k].matches
              /\ results[k].error = TimeoutMessage

\* C17: a batch that has passed its preconditions always reaches the
\* completed state with every verdict collected, the rules whose engine
\* process never exits having a verdict with matched = false and the timeout
\* message.
C17_Terminates == (pc = "submitting") ~> AllCollected

\* C17 witness: a batch of several rules is complete, the engine of its
\* first rule never having exited on its own.
C17_Witness ==
    /\ AllCollected
    /\ Len(rule_files) >= 2
    /\ 1 \in NeverExits

\* the future whose rule the verdict v names
FutureOf(v) == CHOOSE i \in Futures : rule_files[i] = v.rule_file

\* the position of future i in the order in which the invocations ended
CompletionIndex(i) == CHOOSE k \in 1..Len(completed) : completed[k] = i

VerdictFields ==
    {"rule_file", "rule_name", "matches", "stdout", "stderr", "return_code",
     "error"}

\* C18 as stated: results lists the verdicts in the order in which their
\* invocations completed.
C18_Original ==
    \A a, b \in 1..Len(results) :
        a < b =>
            CompletionIndex(FutureOf(results[a]))
                < CompletionIndex(FutureOf(results[b]))

\* C18 amended: results lists first the verdicts of the invocations that had
\* completed when collection began, in any order, then the others in the
\* order in which they completed; a verdict is the one its invocation
\* returned and names its rule by path, with no field for a discovery
\* position.
C18_Amended ==
    /\ \A a, b \in 1..Len(results) :
          LET i == FutureOf(results[a])
              j == FutureOf(results[b])
          IN  a < b =>
                 /\ j \in early => i \in early
                 /\ (i \notin early /\ j \notin early) =>
                       CompletionIndex(i) < CompletionIndex(j)
    /\ \A k \in 1..Len(results) :
          /\ \E i \in Futures : /\ fstate[i] = "yielded"
                                /\ results[k] = fresult[i].value
                                /\ results[k].rule_file = rule_files[i]
          /\ DOMAIN results[k] = VerdictFields

\* C18 witness: a complete batch whose results follow neither the order of
\* submission nor the order of completion, some verdicts having been ready
\* when collection began and some not.
C18_Witness ==
    /\ pc = "complete"
    /\ early # {}
    /\ early # Futures
    /\ \E a, b \in 1..Len(results) :
          /\ a < b
          /\ FutureOf(results[a]) > FutureOf(results[b])
    /\ ~C18_Original

\* the futures whose verdict the loop has taken
Yielded == {i \in Futures : fstate[i] = "yielded" /\ ~fresult[i].raised}

\* every verdict taken is in results, once and as its invocation returned it
NoneLost ==
    /\ Len(results) = Cardinality(Yielded)
    /\ \A i \in Yielded :
          Cardinality({k \in 1..Len(results) : results[k] = fresult[i].value}) = 1

\* a step leaves results alone or appends the verdict of one finished future
AppendOne ==
    \/ results' = results
    \/ \E i \in Futures :
          /\ fstate[i] = "finished"
          /\ fstate'[i] = "yielded"
          /\ results' = Append(results, fresult[i].value)

\* C19: in every interleaving of the completions, each step either leaves
\* results as it is or appends to it the whole verdict of one finished
\* invocation, and every verdict taken so far is in results exactly once,
\* as its invocation returned it.
C19_AppendsIntact == []NoneLost /\ [][AppendOne]_vars

\* C19 witness: results already holds a verdict while two more invocations
\* have finished and wait to be appended.
C19_Witness ==
    /\ results # <<>>
    /\ NoneLost
    /\ Cardinality({i \in Futures : fstate[i] = "finished"}) >= 2

\* the state of the dispatcher
Phase ==
    IF pc = "accepting" THEN "accepting preconditions"
    ELSE IF Dispatching THEN "dispatching"
    ELSE IF pc = "complete" THEN "complete"
    ELSE "precondition-failed"

PhaseSteps ==
    {<<"accepting preconditions", "dispatching">>,
     <<"accepting preconditions", "precondition-failed">>,
     <<"dispatching", "complete">>}

\* a verdict exists exactly for the rules whose invocation has ended
ResolvedOrNot ==
    \A i \in Futures :
        /\ fresult[i] # NoResult <=> fstate[i] \in {"finished", "yielded"}
        /\ fresult[i] = NoResult \/ fresult[i] = scan_with_rule(rule_files[i], engine[i])

\* a resolved verdict and a collected verdict stay as they are
VerdictsKept ==
    /\ \A i \in DOMAIN fresult :
          fresult[i] # NoResult =>
              i \in DOMAIN fresult' /\ fresult'[i] = fresult[i]
    /\ \A k \in 1..Len(results) :
          k <= Len(results') /\ results'[k] = results[k]

\* C20: a rule has no verdict until its invocation ends and then the final
\* one, which never changes; the dispatcher goes from accepting
\* preconditions to dispatching to complete, or from accepting preconditions
\* to precondition-failed, and leaves neither final state.
C20_Lifecycles ==
    /\ []ResolvedOrNot
    /\ [][VerdictsKept /\ (Phase' = Phase \/ <<Phase, Phase'>> \in PhaseSteps)]_vars

\* C20 witness: a batch of several rules went through dispatching to
\* complete, every rule resolved, and the report was written after that.
C20_Witness ==
    /\ Phase = "complete"
    /\ Len(rule_files) >= 2
    /\ \A i \in Futures : fresult[i] # NoResult
    /\ report # NoReport

\* the futures whose engine process ran to its end
NormalCompletions == {i \in Resolved : engine[i].kind = "completed"}

\* what lines 81-82 make of the two streams
MatchedAndError(v, proc) ==
    /\ v.matches = (strip(proc.stdout) # <<>>)
    /\ v.error = IF strip(proc.stderr) # <<>> THEN strip(proc.stderr) ELSE None

\* C21 as stated: after a normal completion the verdict holds the exit
\* status and the stderr of the process, matched is (trimmed stdout is not
\* empty) and error is the trimmed stderr if that is not empty, unset
\* otherwise.
C21_Original ==
    \A i \in NormalCompletions :
        /\ VerdictOf(i).return_code = engine[i].returncode
        /\ VerdictOf(i).stderr = engine[i].stderr
        /\ MatchedAndError(VerdictOf(i), engine[i])

\* C21 amended: after a normal completion the verdict holds the exit status
\* as it is and stdout and stderr trimmed of surrounding whitespace; matched
\* is (trimmed stdout is not empty) and error is the trimmed stderr if that
\* is not empty, unset otherwise, whatever the exit code.
C21_Amended ==
    \A i \in NormalCompletions :
        /\ VerdictOf(i).return_code = engine[i].returncode
        /\ VerdictOf(i).stderr = strip(engine[i].stderr)
        /\ VerdictOf(i).stdout = strip(engine[i].stdout)
        /\ MatchedAndError(VerdictOf(i), engine[i])
        /\ VerdictOf(i).error \in {None, VerdictOf(i).stderr}

\* C21 witness: a process that ended with a non-zero exit code and wrote
\* only whitespace to stderr; its verdict has no error.
C21_Witness ==
    \E i \in NormalCompletions :
        /\ engine[i].returncode # 0
        /\ engine[i].stderr = <<" ">>
        /\ VerdictOf(i).error = None
        /\ VerdictOf(i).stderr = <<>>

\* a step of the worker of rule i: it enters scan_with_rule or leaves it
WorkerStep(i) ==
    \/ fstate[i] = "queued" /\ fstate'[i] = "running"
    \/ fstate[i] = "running" /\ fstate'[i] = "finished"

\* what a worker of rule i leaves as it was
WorkerFrame(i) ==
    /\ rule_files' = rule_files
    /\ target_file' = target_file
    /\ rules_dir' = rules_dir
    /\ timeout' = timeout
    /\ max_workers' = max_workers
    /\ results' = results
    /\ \A j \in Futures \ {i} :
          fstate'[j] = fstate[j] /\ fresult'[j] = fresult[j]
    /\ fresult'[i] \in {fresult[i], scan_with_rule(rule_files[i], engine[i])}

\* C22: a step of a scan_with_rule invocation leaves the rule list, the
\* target path, the timeout, the concurrency cap, the collected results and
\* the state and verdict of every other rule as they were; it only sets the
\* verdict of its own rule.
C22_WorkerFrame ==
    [][\A i \in Futures : WorkerStep(i) => WorkerFrame(i)]_vars

\* C22 witness: one worker has returned its verdict and another is still in
\* scan_with_rule while results holds the verdict collected before.
C22_Witness ==
    /\ Len(results) = 1
    /\ \E i, j \in Futures :
          /\ fstate[i] = "finished"
          /\ fresult[i] = scan_with_rule(rule_files[i], engine[i])
          /\ fstate[j] = "running"
          /\ fresult[j] = NoResult

\* the verdict run_scan collects for rule i in every batch
BatchVerdict(i) == scan_with_rule(rule_files[i], engine[i]).value

\* how often results holds the verdict of rule i
TimesCollected(i) ==
    Cardinality({k \in 1..Len(results) : results[k] = BatchVerdict(i)})

\* results holds every verdict of every batch run so far and the reports
\* count them all
AllBatchesKept ==
    /\ pc = "complete" =>
          /\ Len(results) = run * Len(rule_files)
          /\ \A i \in Futures : TimesCollected(i) = run
    /\ (pc # "accepting" /\ \A i \in Futures : fstate[i] = "new") =>
          Len(results) = (run - 1) * Len(rule_files)
    /\ report # NoReport =>
          /\ report.total_rules = run * Len(rule_files)
          /\ report.matching_rules = Len(Matching(results))
          /\ report.total_rules = Len(rule_files) <=> run = 1
    /\ (report # NoReport /\ prev_report # NoReport) =>
          /\ report.total_rules > prev_report.total_rules
          /\ report.matching_rules >= prev_report.matching_rules

\* the verdicts results held stay where they are
ResultsExtended ==
    /\ Len(results') >= Len(results)
    /\ SubSeq(results', 1, Len(results)) = results

\* C23: no step of any sequence of run_scan calls on one scanner removes a
\* verdict from results; when a batch is complete results holds the verdicts
\* of every batch run so far, the counts of the report cover them all, and
\* the reported total equals the current rule count after the first batch
\* only.
C23_ResultsAccumulate == []AllBatchesKept /\ [][ResultsExtended]_vars

\* C23 witness: the report of a second batch on the same scanner counts
\* twice the rules the scanner has.
C23_Witness ==
    /\ run = 2
    /\ pc = "complete"
    /\ report # NoReport
    /\ report.total_rules = 2 * Len(rule_files)
    /\ report.matching_rules >= 2
    /\ summary.total = Len(rule_files)

IsMatchTitle(l) == Len(l) >= 1 /\ l[1] = "[+] MATCH: "

IsErrorLine(l) == Len(l) >= 1 /\ l[1] = "[!] ERROR: "

\* the position of results[k] in the order in which the invocations ended
CompletionRank(k) == CompletionIndex(FutureOf(results[k]))

\* the position of results[k] in the order in which the verdicts were taken
CollectionRank(k) == k

\* every line of the set A comes before every line of the set B
AllBefore(A, B) == \A a \in A, b \in B : a < b

\* the body of the text report: the match blocks first, and the blocks and
\* the error lines each in the order Rank gives their verdicts
TextOrderedBy(Rank(_)) ==
    /\ \A a, b \in 1..Len(report.lines) :
          (IsMatchTitle(report.lines[a]) /\ IsErrorLine(report.lines[b]))
              => a < b
    /\ \A k, l \in 1..Len(results) :
          Rank(k) < Rank(l) =>
              /\ AllBefore(MatchLinesOf(results[k]), MatchLinesOf(results[l]))
              /\ AllBefore(ErrorLinesOf(results[k]), ErrorLinesOf(results[l]))

\* C24 as stated: in the text rendering the match blocks precede the error
\* lines and each group follows the order in which the invocations
\* completed; the structured rendering lists the verdicts in collection
\* order.
C24_Original ==
    report # NoReport =>
        IF report.format = "text"
        THEN TextOrderedBy(CompletionRank)
        ELSE report.verdicts = results

\* C24 amended: in the text rendering the match blocks precede the error
\* lines and each group follows the order in which the verdicts were
\* collected, which is the order of completion only for the invocations
\* that ended after collection began; the structured rendering lists the
\* verdicts in collection order.
C24_Amended ==
    report # NoReport =>
        IF report.format = "text"
        THEN /\ TextOrderedBy(CollectionRank)
             /\ \A k, l \in 1..Len(results) :
                   (FutureOf(results[k]) \notin early
                    /\ FutureOf(results[l]) \notin early
                    /\ CompletionRank(k) < CompletionRank(l))
                       => CollectionRank(k) < CollectionRank(l)
        ELSE report.verdicts = results

\* C24 witness: a text report of a batch in which an error was collected
\* before a match, so that the block of the match moved before the line of
\* the error, and two entries of one group were collected in an order that
\* is not the order in which their invocations ended.
C24_Witness ==
    /\ report # NoReport
    /\ report.format = "text"
    /\ \E k, l \in 1..Len(results) :
          /\ k < l
          /\ ErrorLinesOf(results[k]) # {}
          /\ MatchLinesOf(results[l]) # {}
    /\ \E k, l \in 1..Len(results) :
          /\ k < l
          /\ results[k].matches = results[l].matches
          /\ CompletionRank(k) > CompletionRank(l)

====
